---- MODULE Spec2Model ----
(***************************************************************************)
(* Model of src/convert.js: the Markdown-to-HTML batch converter.          *)
(*                                                                         *)
(* Text (file contents, file names, paths, console lines) is a sequence of *)
(* lexemes: each element is a piece of text that the program never looks   *)
(* inside.  The two search patterns of the program, '.md' and              *)
(* '{{content}}', and the characters that String.prototype.replace gives a *)
(* meaning in a replacement text ($ & ' `) are lexemes of their own.       *)
(*                                                                         *)
(* The filesystem is a function from the paths the program touches to a    *)
(* node: absent, a directory, or a regular file with its content.          *)
(*                                                                         *)
(* convertToHtml is one step per call it makes (read, render, read, mkdir, *)
(* write), so that an exception can leave it between two of them.  Every   *)
(* call into fs or marked may fail for a reason of the system's (denied):  *)
(* the step then throws and changes nothing.  Nothing but the script       *)
(* changes the filesystem.                                                 *)
(***************************************************************************)
EXTENDS Integers, Sequences, FiniteSets, TLC

\* How many entries of the guidelines list (from its head) the model runs over.
NumGuidelines == 2

----------------------------------------------------------------------------
(* Text *)

\* String.prototype.indexOf: the first position of pat in str, 0 when there is none.
IndexOf(str, pat) ==
  LET hits == { k \in 1..(Len(str) - Len(pat) + 1) :
                  SubSeq(str, k, k + Len(pat) - 1) = pat }
  IN  IF hits = {} THEN 0 ELSE CHOOSE k \in hits : \A j \in hits : k <= j

\* GetSubstitution of ECMAScript for a string pattern (no capture groups):
\* in the replacement text $$ is a dollar, $& the matched text, $` the text
\* before the match, $' the text after it; any other $ stands for itself.
RECURSIVE GetSubstitution(_, _, _, _)
GetSubstitution(matched, str, position, replacement) ==
  IF replacement = <<>> THEN <<>>
  ELSE IF replacement[1] = "$" /\ Len(replacement) >= 2
            /\ replacement[2] \in {"$", "&", "`", "'"}
       THEN LET rest == GetSubstitution(matched, str, position,
                                        SubSeq(replacement, 3, Len(replacement)))
            IN  CASE replacement[2] = "$" -> <<"$">> \o rest
                  [] replacement[2] = "&" -> matched \o rest
                  [] replacement[2] = "`" -> SubSeq(str, 1, position - 1) \o rest
                  [] replacement[2] = "'" ->
                       SubSeq(str, position + Len(matched), Len(str)) \o rest
       ELSE <<replacement[1]>>
              \o GetSubstitution(matched, str, position, Tail(replacement))

\* String.prototype.replace(searchValue, replaceValue) with two strings: only
\* the first occurrence is replaced, by the expansion of replaceValue.
StringReplaceOrAppend(str, searchValue, replaceValue) ==
  LET pos == IndexOf(str, searchValue)
  IN  IF pos = 0 THEN str \o replaceValue
      ELSE SubSeq(str, 1, pos - 1)
             \o GetSubstitution(searchValue, str, pos, replaceValue)
             \o SubSeq(str, pos + Len(searchValue), Len(str))
StringReplace(str, searchValue, replaceValue) ==
  LET pos == IndexOf(str, searchValue)
  IN  IF pos = 0 THEN str
      ELSE SubSeq(str, 1, pos - 1)
             \o GetSubstitution(searchValue, str, pos, replaceValue)
             \o SubSeq(str, pos + Len(searchValue), Len(str))

\* How many times pat occurs in str.
Occurrences(str, pat) ==
  Cardinality({ k \in 1..(Len(str) - Len(pat) + 1) :
                  SubSeq(str, k, k + Len(pat) - 1) = pat })

Token == <<"{{content}}">>

\* marked's escape of the characters of running text.
EscapeLexeme(c) ==
  CASE c = "&" -> <<"&", "amp;">>
    [] c = "<" -> <<"&", "lt;">>
    [] c = ">" -> <<"&", "gt;">>
    [] c = "\"" -> <<"&", "quot;">>
    [] c = "'" -> <<"&", "#39;">>
    [] OTHER   -> <<c>>

RECURSIVE Escape(_)
Escape(text) ==
  IF text = <<>> THEN <<>> ELSE EscapeLexeme(text[1]) \o Escape(Tail(text))

\* marked.parse on a document of one paragraph of running text.
MarkedParse(md) == <<"<p>">> \o Escape(md) \o <<"</p>\n">>

----------------------------------------------------------------------------
(* Paths *)

\* path.join of a directory and a name.
PathJoin(dir, name) == dir \o <<"/">> \o name

\* path.dirname: the path without its last component.
Dirname(p) ==
  LET seps == { k \in 1..Len(p) : p[k] = "/" }
  IN  IF seps = {} THEN <<".">>
      ELSE SubSeq(p, 1, (CHOOSE k \in seps : \A j \in seps : j <= k) - 1)

\* A path and every ancestor of it, as mkdir -p walks them.
WithAncestors(p) ==
  { SubSeq(p, 1, k) : k \in { j \in 1..Len(p) : j = Len(p) \/ p[j + 1] = "/" } }

----------------------------------------------------------------------------
(* The manifest *)

AllGuidelines ==
  << <<"01-component-guidelines", ".md">>,
     <<"02-scss-guidelines", ".md">>,
     <<"03-template-guidelines", ".md">>,
     <<"04-store-ngrx-guidelines", ".md">>,
     <<"05-services-guidelines", ".md">>,
     <<"06-directives-pipes-guidelines", ".md">> >>

guidelines == SubSeq(AllGuidelines, 1, NumGuidelines)

processFiles == << <<"pr-submission-process", ".md">> >>

Lists == <<"guidelines", "processFiles">>

Files(l) == IF l = "guidelines" THEN guidelines ELSE processFiles

SourceRoot(l) ==
  IF l = "guidelines" THEN <<"src", "/", "guidelines">> ELSE <<"src", "/", "process">>

TargetRoot(l) ==
  IF l = "guidelines" THEN <<"docs", "/", "guidelines">> ELSE <<"docs", "/", "process">>

\* The callback's two paths for a file name of list l.
SourcePathOf(l, name) == PathJoin(SourceRoot(l), name)

TargetPathOf(l, name) ==
  PathJoin(TargetRoot(l), StringReplace(name, <<".md">>, <<".html">>))

SourcePath(l, k) == SourcePathOf(l, Files(l)[k])

TargetPathShared(l, k) == PathJoin(TargetRoot(l), <<"index", ".html">>)
TargetPath(l, k) == TargetPathOf(l, Files(l)[k])

TemplatePath == <<"src", "/", "template", ".html">>

\* The manifest entries, in the order the two forEach loops visit them.
Entries ==
  [k \in 1..Len(guidelines) |-> <<"guidelines", k>>]
    \o [k \in 1..Len(processFiles) |-> <<"processFiles", k>>]

EntrySet == { Entries[k] : k \in 1..Len(Entries) }

Source(e) == SourcePath(e[1], e[2])
Target(e) == TargetPath(e[1], e[2])

\* The position of an entry in the visiting order.
Position(e) == CHOOSE k \in 1..Len(Entries) : Entries[k] = e

----------------------------------------------------------------------------
(* The filesystem *)

Absent == [kind |-> "absent", data |-> <<>>]
Directory == [kind |-> "dir", data |-> <<>>]
File(data) == [kind |-> "file", data |-> data]

OutputDirs == UNION { WithAncestors(TargetRoot(Lists[k])) : k \in 1..Len(Lists) }

Paths ==
  { Source(e) : e \in EntrySet } \cup { Target(e) : e \in EntrySet }
    \cup OutputDirs \cup {TemplatePath}

\* fs.existsSync: true for a file as well as for a directory.
ExistsSyncAlways(f, p) == TRUE
ExistsSync(f, p) == p \in DOMAIN f /\ f[p].kind # "absent"

\* fs.readFileSync(p, 'utf-8'): the content of a regular file, an error otherwise.
ReadFileSyncEmpty(f, p) == [ok |-> TRUE, data |-> f[p].data]
ReadFileSync(f, p) ==
  IF p \in DOMAIN f /\ f[p].kind = "file"
  THEN [ok |-> TRUE, data |-> f[p].data]
  ELSE [ok |-> FALSE, data |-> <<>>]

\* fs.mkdirSync(p, {recursive: true}): creates p and its missing ancestors;
\* an error (and nothing created) when a regular file is in the way or when
\* the system refuses (denied).
MkdirSync(f, p, denied) ==
  IF denied \/ \E q \in WithAncestors(p) : q \in DOMAIN f /\ f[q].kind = "file"
  THEN [ok |-> FALSE, fs |-> f]
  ELSE [ok |-> TRUE,
        fs |-> [q \in DOMAIN f |->
                  IF q \in WithAncestors(p) /\ f[q].kind = "absent"
                  THEN Directory ELSE f[q]]]

\* fs.writeFileSync(p, data): creates or overwrites the regular file p; an
\* error (and nothing changed) when the parent is not a directory, when p is
\* a directory, or when the system refuses (denied).
WriteFileSyncAppend(f, p, data, denied) ==
  IF denied \/ ~(Dirname(p) \in DOMAIN f /\ f[Dirname(p)].kind = "dir")
       \/ f[p].kind = "dir"
  THEN [ok |-> FALSE, fs |-> f]
  ELSE [ok |-> TRUE, fs |-> [f EXCEPT ![p] = File(f[p].data \o data)]]
WriteFileSyncKeepExisting(f, p, data, denied) ==
  IF denied \/ ~(Dirname(p) \in DOMAIN f /\ f[Dirname(p)].kind = "dir")
       \/ f[p].kind = "dir"
  THEN [ok |-> FALSE, fs |-> f]
  ELSE IF f[p].kind = "file" THEN [ok |-> TRUE, fs |-> f]
  ELSE [ok |-> TRUE, fs |-> [f EXCEPT ![p] = File(data)]]
WriteFileSync(f, p, data, denied) ==
  IF denied \/ ~(Dirname(p) \in DOMAIN f /\ f[Dirname(p)].kind = "dir")
       \/ f[p].kind = "dir"
  THEN [ok |-> FALSE, fs |-> f]
  ELSE [ok |-> TRUE, fs |-> [f EXCEPT ![p] = File(data)]]

\* ensureDirectoryExists: mkdir only when existsSync says the path is free.
EnsureDirectoryExistsNoCheck(f, dirPath, denied) ==
  IF ExistsSync(f, dirPath) THEN [ok |-> FALSE, fs |-> f]
  ELSE MkdirSync(f, dirPath, denied)
EnsureDirectoryExists(f, dirPath, denied) ==
  IF ~ExistsSync(f, dirPath) THEN MkdirSync(f, dirPath, denied)
  ELSE [ok |-> TRUE, fs |-> f]

\* The progress line of console.log.
ProgressLineSwapped(src, tgt) == <<"Converted ">> \o tgt \o <<" to ">> \o src
ProgressLine(src, tgt) == <<"Converted ">> \o src \o <<" to ">> \o tgt

\* console.log: one more line at the end of the output.
ConsoleLogFirst(out, line) == <<line>> \o out
ConsoleLog(out, line) == Append(out, line)

----------------------------------------------------------------------------
(* The environment a run starts in *)

\* Template texts: one placeholder, two placeholders, none.
Templates ==
  { <<"<main>", "{{content}}", "</main>">>,
    <<"{{content}}", "<hr>", "{{content}}">>,
    <<"<main>", "</main>">> }

\* The running text of the source documents after their title.
Bodies ==
  { <<" text">>, <<" ", "$", "&">>, <<" ", "$", "'">>, <<" ", "$", "$">>,
    <<" ", "{{content}}">> }

\* The Markdown of a source document: its own title and the body.
Markdown(file, body) == <<file[1]>> \o body

Kinds == {"absent", "file", "dir"}

InitialFs(present, tpl, body, dDocs, dOut, stale) ==
  [p \in Paths |->
     IF p = TemplatePath THEN tpl
     ELSE IF \E e \in EntrySet : p = Source(e)
     THEN LET e == CHOOSE x \in EntrySet : p = Source(x)
          IN  IF e \in present THEN File(Markdown(Files(e[1])[e[2]], body))
              ELSE Absent
     ELSE IF p = <<"docs">>
     THEN (IF dDocs = "file" THEN File(<<"occupied">>)
           ELSE IF dDocs = "dir" THEN Directory ELSE Absent)
     ELSE IF p \in OutputDirs
     THEN (IF dOut[p] = "file" THEN File(<<"occupied">>)
           ELSE IF dOut[p] = "dir" THEN Directory ELSE Absent)
     ELSE IF stale /\ dOut[Dirname(p)] = "dir" THEN File(<<"stale">>)
     ELSE Absent]

----------------------------------------------------------------------------
(* State *)

VARIABLES
  fs,         \* the filesystem
  stdout,     \* the lines console.log has printed in this run
  pc,         \* where the run is
  list,       \* the forEach loop the run is in
  idx,        \* the position of the current entry in its list
  md,         \* convertToHtml's md
  html,       \* convertToHtml's html
  template,   \* convertToHtml's template
  error,      \* the uncaught exception that ended the run, "none" if none
  second,     \* this is the second run in a row
  checked,    \* history: the entries whose existence was checked in this run
  written,    \* history: target path -> content, for the writes of this run
  fsAtCall,   \* history: the filesystem when convertToHtml was last called
  fsAfterFirst, \* history: the filesystem at the end of the first run
              \* (until then: the one the first run started on)
  firstEnd,   \* history: how the first run ended: its error and last entry
  ensured,    \* history: the paths ensureDirectoryExists has returned for
  edited,     \* the template file has been edited by its author
  removed,    \* a source file has been removed by somebody else
  file,       \* a file name handed to the callback on its own (<<>>: none)
  paths       \* the paths the callback made of it: <<sourcePath, targetPath>>

vars == <<fs, stdout, pc, list, idx, md, html, template, error, second,
          checked, written, fsAtCall, fsAfterFirst, firstEnd, ensured,
          edited, removed, file, paths>>

\* What the script itself never changes.
aside == <<edited, removed, file, paths>>

locals == <<md, html, template>>
history == <<checked, written, fsAtCall, fsAfterFirst, firstEnd, ensured>>

entry == <<list, idx>>
sourcePath == SourcePath(list, idx)
targetPath == TargetPath(list, idx)

NoWrites == [p \in {} |-> <<>>]

Init ==
  /\ \E present \in SUBSET EntrySet,
        tpl \in {Absent} \cup { File(t) : t \in Templates },
        body \in Bodies,
        dDocs \in Kinds,
        dOut \in [OutputDirs \ {<<"docs">>} -> Kinds],
        stale \in BOOLEAN :
       /\ dDocs # "dir" => \A p \in DOMAIN dOut : dOut[p] = "absent"
       /\ stale => \E p \in DOMAIN dOut : dOut[p] = "dir"
       /\ fs = InitialFs(present, tpl, body, dDocs, dOut, stale)
  /\ stdout = <<>>
  /\ pc = "check"
  /\ list = "guidelines"
  /\ idx = 1
  /\ md = <<>>
  /\ html = <<>>
  /\ template = <<>>
  /\ error = "none"
  /\ second = FALSE
  /\ checked = <<>>
  /\ written = NoWrites
  /\ fsAtCall = fs
  /\ fsAfterFirst = fs
  /\ firstEnd = <<"none", "guidelines", 1>>
  /\ ensured = {}
  /\ edited = FALSE
  /\ removed = FALSE
  /\ file = <<>>
  /\ paths = <<>>

----------------------------------------------------------------------------
(* Steps *)

\* An exception nobody catches: the process ends.
ThrowCaught(e) ==
  /\ error' = e
  /\ IF idx < Len(Files(list))
     THEN pc' = "check" /\ idx' = idx + 1 /\ list' = list
     ELSE IF list = "guidelines" /\ Len(processFiles) > 0
     THEN pc' = "check" /\ idx' = 1 /\ list' = "processFiles"
     ELSE pc' = "done" /\ idx' = idx /\ list' = list
ThrowRetry(e) ==
  /\ error' = error
  /\ pc' = pc
  /\ UNCHANGED <<list, idx>>
Throw(e) ==
  /\ error' = e
  /\ pc' = "aborted"
  /\ UNCHANGED <<list, idx>>

\* The callback returns: forEach goes to the next file, the script to the
\* second loop after the first, and ends after the second.
Advance ==
  /\ error' = error
  /\ IF idx < Len(Files(list))
     THEN pc' = "check" /\ idx' = idx + 1 /\ list' = list
     ELSE IF list = "guidelines" /\ Len(processFiles) > 0
     THEN pc' = "check" /\ idx' = 1 /\ list' = "processFiles"
     ELSE pc' = "done" /\ idx' = idx /\ list' = list

\* if (fs.existsSync(sourcePath)) { convertToHtml(...) ... }
CheckNoWait ==
  /\ UNCHANGED aside
  /\ pc = "check"
  /\ checked' = Append(checked, entry)
  /\ Advance
  /\ fsAtCall' = IF ExistsSync(fs, sourcePath) THEN fs ELSE fsAtCall
  /\ UNCHANGED <<fs, stdout, locals, second, written, fsAfterFirst, firstEnd,
                 ensured>>
CheckMkdirFirst ==
  /\ UNCHANGED aside
  /\ pc = "check"
  /\ checked' = Append(checked, entry)
  /\ IF ExistsSync(fs, sourcePath)
     THEN /\ pc' = "readSource"
          /\ fsAtCall' = fs
          /\ fs' = MkdirSync(fs, Dirname(targetPath), FALSE).fs
          /\ UNCHANGED <<list, idx, error>>
     ELSE /\ Advance
          /\ UNCHANGED <<fs, fsAtCall>>
  /\ UNCHANGED <<stdout, locals, second, written, fsAfterFirst, firstEnd,
                 ensured>>
CheckRemoveStale ==
  /\ UNCHANGED aside
  /\ pc = "check"
  /\ checked' = Append(checked, entry)
  /\ IF ExistsSync(fs, sourcePath)
     THEN /\ pc' = "readSource"
          /\ fsAtCall' = fs
          /\ UNCHANGED <<fs, list, idx, error>>
     ELSE /\ Advance
          /\ fs' = [fs EXCEPT ![targetPath] = Absent]
          /\ UNCHANGED fsAtCall
  /\ UNCHANGED <<stdout, locals, second, written, fsAfterFirst, firstEnd,
                 ensured>>
Check ==
  /\ UNCHANGED aside
  /\ pc = "check"
  /\ checked' = Append(checked, entry)
  /\ IF ExistsSync(fs, sourcePath)
     THEN /\ pc' = "readSource"
          /\ fsAtCall' = fs
          /\ UNCHANGED <<list, idx, error>>
     ELSE /\ Advance
          /\ UNCHANGED fsAtCall
  /\ UNCHANGED <<fs, stdout, locals, second, written, fsAfterFirst, firstEnd,
                 ensured>>

\* const md = fs.readFileSync(mdPath, 'utf-8');
ReadSourceSkipMissing ==
  /\ UNCHANGED aside
  /\ pc = "readSource"
  /\ \E denied \in BOOLEAN :
       LET r == ReadFileSync(fs, sourcePath)
       IN  IF denied THEN Throw("readSource") /\ UNCHANGED md
           ELSE IF ~r.ok THEN Advance /\ UNCHANGED md
           ELSE /\ md' = r.data
                /\ pc' = "render"
                /\ UNCHANGED <<list, idx, error>>
  /\ UNCHANGED <<fs, stdout, html, template, second, history>>
ReadSource ==
  /\ UNCHANGED aside
  /\ pc = "readSource"
  /\ \E denied \in BOOLEAN :
       LET r == ReadFileSync(fs, sourcePath)
       IN  IF denied \/ ~r.ok
           THEN Throw("readSource") /\ UNCHANGED md
           ELSE /\ md' = r.data
                /\ pc' = "render"
                /\ UNCHANGED <<list, idx, error>>
  /\ UNCHANGED <<fs, stdout, html, template, second, history>>

\* const html = marked.parse(md);
Render ==
  /\ UNCHANGED aside
  /\ pc = "render"
  /\ \E throws \in BOOLEAN :
       IF throws
       THEN Throw("render") /\ UNCHANGED html
       ELSE /\ html' = MarkedParse(md)
            /\ pc' = "readTemplate"
            /\ UNCHANGED <<list, idx, error>>
  /\ UNCHANGED <<fs, stdout, md, template, second, history>>

\* const template = fs.readFileSync('src/template.html', 'utf-8');
ReadTemplateCached ==
  /\ UNCHANGED aside
  /\ pc = "readTemplate"
  /\ \E denied \in BOOLEAN :
       LET r == IF template # <<>> THEN [ok |-> TRUE, data |-> template]
                ELSE ReadFileSync(fs, TemplatePath)
       IN  IF denied \/ ~r.ok
           THEN Throw("readTemplate") /\ UNCHANGED template
           ELSE /\ template' = r.data
                /\ pc' = "ensureDirectory"
                /\ UNCHANGED <<list, idx, error>>
  /\ UNCHANGED <<fs, stdout, md, html, second, history>>
ReadTemplate ==
  /\ UNCHANGED aside
  /\ pc = "readTemplate"
  /\ \E denied \in BOOLEAN :
       LET r == ReadFileSync(fs, TemplatePath)
       IN  IF denied \/ ~r.ok
           THEN Throw("readTemplate") /\ UNCHANGED template
           ELSE /\ template' = r.data
                /\ pc' = "ensureDirectory"
                /\ UNCHANGED <<list, idx, error>>
  /\ UNCHANGED <<fs, stdout, md, html, second, history>>

\* ensureDirectoryExists(path.dirname(targetPath));
EnsureDirectory ==
  /\ UNCHANGED aside
  /\ pc = "ensureDirectory"
  /\ \E denied \in BOOLEAN :
       LET r == EnsureDirectoryExists(fs, Dirname(targetPath), denied)
       IN  IF ~r.ok
           THEN Throw("ensureDirectory") /\ UNCHANGED <<fs, ensured>>
           ELSE /\ fs' = r.fs
                /\ ensured' = ensured \cup {Dirname(targetPath)}
                /\ pc' = "write"
                /\ UNCHANGED <<list, idx, error>>
  /\ UNCHANGED <<stdout, locals, second, checked, written, fsAtCall,
                 fsAfterFirst, firstEnd>>

\* fs.writeFileSync(targetPath, template.replace('{{content}}', html));
WriteWithCleanup ==
  /\ UNCHANGED aside
  /\ pc = "write"
  /\ \E denied \in BOOLEAN :
       LET data == StringReplace(template, <<"{{content}}">>, html)
           r == WriteFileSync(fs, targetPath, data, denied)
       IN  IF ~r.ok
           THEN Throw("write") /\ fs' = fsAtCall /\ UNCHANGED written
           ELSE /\ fs' = r.fs
                /\ written' = [p \in DOMAIN written \cup {targetPath} |->
                                 IF p = targetPath THEN data ELSE written[p]]
                /\ pc' = "log"
                /\ UNCHANGED <<list, idx, error>>
  /\ UNCHANGED <<stdout, locals, second, checked, fsAtCall, fsAfterFirst,
                 firstEnd, ensured>>
WriteAndRemoveSource ==
  /\ UNCHANGED aside
  /\ pc = "write"
  /\ \E denied \in BOOLEAN :
       LET data == StringReplace(template, <<"{{content}}">>, html)
           r == WriteFileSync(fs, targetPath, data, denied)
       IN  IF ~r.ok
           THEN Throw("write") /\ UNCHANGED <<fs, written>>
           ELSE /\ fs' = [r.fs EXCEPT ![sourcePath] = Absent]
                /\ written' = [p \in DOMAIN written \cup {targetPath} |->
                                 IF p = targetPath THEN data ELSE written[p]]
                /\ pc' = "log"
                /\ UNCHANGED <<list, idx, error>>
  /\ UNCHANGED <<stdout, locals, second, checked, fsAtCall, fsAfterFirst,
                 firstEnd, ensured>>
Write ==
  /\ UNCHANGED aside
  /\ pc = "write"
  /\ \E denied \in BOOLEAN :
       LET data == StringReplace(template, <<"{{content}}">>, html)
           r == WriteFileSync(fs, targetPath, data, denied)
       IN  IF ~r.ok
           THEN Throw("write") /\ UNCHANGED <<fs, written>>
           ELSE /\ fs' = r.fs
                /\ written' = [p \in DOMAIN written \cup {targetPath} |->
                                 IF p = targetPath THEN data ELSE written[p]]
                /\ pc' = "log"
                /\ UNCHANGED <<list, idx, error>>
  /\ UNCHANGED <<stdout, locals, second, checked, fsAtCall, fsAfterFirst,
                 firstEnd, ensured>>

\* console.log(`Converted ${sourcePath} to ${targetPath}`);
Log ==
  /\ UNCHANGED aside
  /\ pc = "log"
  /\ stdout' = ConsoleLog(stdout, ProgressLine(sourcePath, targetPath))
  /\ Advance
  /\ UNCHANGED <<fs, locals, second, history>>

\* The script is started a second time, after the first run has ended
\* (normally or by an exception).
Rerun ==
  /\ UNCHANGED aside
  /\ pc \in {"done", "aborted"}
  /\ ~second
  /\ second' = TRUE
  /\ fsAfterFirst' = fs
  /\ firstEnd' = <<error, list, idx>>
  /\ error' = "none"
  /\ fsAtCall' = fs
  /\ pc' = "check"
  /\ list' = "guidelines"
  /\ idx' = 1
  /\ stdout' = <<>>
  /\ md' = <<>>
  /\ html' = <<>>
  /\ template' = <<>>
  /\ checked' = <<>>
  /\ written' = NoWrites
  /\ UNCHANGED <<fs, ensured>>

Next ==
  \/ Check
  \/ ReadSource
  \/ Render
  \/ ReadTemplate
  \/ EnsureDirectory
  \/ Write
  \/ Log
  \/ Rerun

Spec == Init /\ [][Next]_vars

\* A step of the script itself.  Every call of the script is synchronous: it
\* returns or throws, and the statement after it runs at once, so a run that
\* can take a step takes one.
Step ==
  \/ Check
  \/ ReadSource
  \/ Render
  \/ ReadTemplate
  \/ EnsureDirectory
  \/ Write
  \/ Log

\* One run from its start to its end.  Which step comes next depends on what
\* is on disk only through its kind (absent, file, directory), never through
\* the text of a file: the run starts on sources of plain text and on a
\* template that is missing or has one placeholder.
InitFair ==
  /\ Init
  /\ fs[TemplatePath].kind = "file" => Occurrences(fs[TemplatePath].data, Token) = 1
  /\ \A e \in EntrySet :
       IndexOf(fs[Source(e)].data, <<"$">>) = 0
         /\ IndexOf(fs[Source(e)].data, <<"{{content}}">>) = 0

FairSpec == InitFair /\ [][Step]_vars /\ WF_vars(Step)

----------------------------------------------------------------------------
(* The script with an author who edits the template *)

\* The author saves another text in src/template.html, once, while no
\* conversion is under way: before an existence check of the first run or
\* between the two runs.
EditTemplate ==
  /\ ~edited
  /\ ~second
  /\ pc \in {"check", "done", "aborted"}
  /\ edited' = TRUE
  /\ \E t \in Templates :
       /\ fs[TemplatePath] # File(t)
       /\ fs' = [fs EXCEPT ![TemplatePath] = File(t)]
  /\ UNCHANGED <<stdout, pc, list, idx, locals, error, second, history,
                 removed, file, paths>>

NextEdit ==
  \/ Next
  \/ EditTemplate

\* The author's runs start with a template file in place, no regular file
\* where an output directory goes, and sources of plain text.
InitEdit ==
  /\ Init
  /\ fs[TemplatePath].kind = "file"
  /\ \A p \in OutputDirs : fs[p].kind # "file"
  /\ \A e \in EntrySet :
       IndexOf(fs[Source(e)].data, <<"$">>) = 0
         /\ IndexOf(fs[Source(e)].data, <<"{{content}}">>) = 0

SpecEdit == InitEdit /\ [][NextEdit]_vars

----------------------------------------------------------------------------
(* The script beside a process that removes a source *)

\* Somebody removes one source file, once, during the first run: before the
\* existence check of an entry or between the check and the read of the
\* entry under conversion.
RemoveSource ==
  /\ ~removed
  /\ ~second
  /\ pc \in {"check", "readSource"}
  /\ removed' = TRUE
  /\ \E e \in EntrySet :
       /\ fs[Source(e)].kind = "file"
       /\ fs' = [fs EXCEPT ![Source(e)] = Absent]
  /\ UNCHANGED <<stdout, pc, list, idx, locals, error, second, history,
                 edited, file, paths>>

NextRemove ==
  \/ Next
  \/ RemoveSource

\* These runs start with a template file in place, no regular file where an
\* output directory goes, and sources of plain text.
InitRemove ==
  /\ Init
  /\ fs[TemplatePath].kind = "file"
  /\ \A p \in OutputDirs : fs[p].kind # "file"
  /\ \A e \in EntrySet :
       IndexOf(fs[Source(e)].data, <<"$">>) = 0
         /\ IndexOf(fs[Source(e)].data, <<"{{content}}">>) = 0

SpecRemove == InitRemove /\ [][NextRemove]_vars

----------------------------------------------------------------------------
(* The callback's path mapping on its own *)

\* How long a file name is, in lexemes.
MaxNameLen == 4

NameParts == {"notes", ".draft", ".md"}

\* The file names ending in .md.
FileNames ==
  { n \in UNION { [1..k -> NameParts] : k \in 1..MaxNameLen } :
      n[Len(n)] = ".md" }

InitNames ==
  /\ fs = [p \in Paths |-> Absent]
  /\ stdout = <<>>
  /\ pc = "callback"
  /\ list \in {"guidelines", "processFiles"}
  /\ idx = 1
  /\ md = <<>>
  /\ html = <<>>
  /\ template = <<>>
  /\ error = "none"
  /\ second = FALSE
  /\ checked = <<>>
  /\ written = NoWrites
  /\ fsAtCall = fs
  /\ fsAfterFirst = fs
  /\ firstEnd = <<"none", "guidelines", 1>>
  /\ ensured = {}
  /\ edited = FALSE
  /\ removed = FALSE
  /\ file \in FileNames
  /\ paths = <<>>

\* const sourcePath = path.join(..., file);
\* const targetPath = path.join(..., file.replace('.md', '.html'));
MapFile ==
  /\ pc = "callback"
  /\ paths = <<>>
  /\ paths' = <<SourcePathOf(list, file), TargetPathOf(list, file)>>
  /\ UNCHANGED <<fs, stdout, pc, list, idx, locals, error, second, history,
                 edited, removed, file>>

SpecNames == InitNames /\ [][MapFile]_vars

----------------------------------------------------------------------------
(* The script as a function of the filesystem it starts on *)

\* What fails for a reason of the system's: nothing (<<>>), or one call of the
\* conversion of one entry, <<entry, step>>.
NoFault == <<>>
Fails(fault, e, step) == fault = <<e, step>>

\* convertToHtml(mdPath, targetPath) from beginning to end: whether it
\* returned, and the filesystem it leaves.
ConvertToHtml(f, e, fault) ==
  LET src == ReadFileSync(f, Source(e))
      tpl == ReadFileSync(f, TemplatePath)
      dir == EnsureDirectoryExists(f, Dirname(Target(e)),
                                   Fails(fault, e, "ensureDirectory"))
  IN  IF Fails(fault, e, "readSource") \/ ~src.ok THEN [ok |-> FALSE, fs |-> f]
      ELSE IF Fails(fault, e, "render") THEN [ok |-> FALSE, fs |-> f]
      ELSE IF Fails(fault, e, "readTemplate") \/ ~tpl.ok THEN [ok |-> FALSE, fs |-> f]
      ELSE IF ~dir.ok THEN [ok |-> FALSE, fs |-> f]
      ELSE WriteFileSync(dir.fs, Target(e),
                         StringReplace(tpl.data, <<"{{content}}">>,
                                       MarkedParse(src.data)),
                         Fails(fault, e, "write"))

\* list.forEach(file => { if (fs.existsSync(sourcePath)) convertToHtml(...) })
\* over the entries es; an exception ends it.
RECURSIVE ForEach(_, _, _)
ForEach(f, es, fault) ==
  IF es = <<>> THEN [ok |-> TRUE, fs |-> f]
  ELSE IF ~ExistsSync(f, Source(Head(es))) THEN ForEach(f, Tail(es), fault)
  ELSE LET r == ConvertToHtml(f, Head(es), fault)
       IN  IF r.ok THEN ForEach(r.fs, Tail(es), fault) ELSE r

\* The script: the loop over the guidelines, then the loop over the process
\* files, each list in the order given.
RunScript(f, gs, ps, fault) ==
  LET first == ForEach(f, gs, fault)
  IN  IF first.ok THEN ForEach(first.fs, ps, fault) ELSE first

\* The entries of a list in every order.
Orderings(l) ==
  LET n == Len(Files(l))
  IN  { [k \in 1..n |-> <<l, q[k]>>] :
          q \in { x \in [1..n -> 1..n] : \A i, j \in 1..n : x[i] = x[j] => i = j } }

----------------------------------------------------------------------------
(* Properties *)

SourceMissing(e) == fs[Source(e)].kind = "absent"
SourcePresent(e) == ~SourceMissing(e)

CheckedSet == { checked[k] : k \in 1..Len(checked) }
Logged == { stdout[k] : k \in 1..Len(stdout) }

\* The line the console shows for an entry: Converted <sourcePath> to <targetPath>.
LineOf(e) == <<"Converted ">> \o Source(e) \o <<" to ">> \o Target(e)

RECURSIVE LinesOf(_)
LinesOf(es) ==
  IF es = <<>> THEN <<>> ELSE <<LineOf(es[1])>> \o LinesOf(Tail(es))

InConversion ==
  pc \in {"readSource", "render", "readTemplate", "ensureDirectory", "write", "log"}

\* C1: an entry whose source is missing when the run checks it is skipped:
\* the check step changes no file, prints nothing, calls no conversion, raises
\* no error and moves to the next entry (or ends the run after the last one);
\* and for the rest of the run the entry has no write and no progress line.
C1_MissingSourceSkipped ==
  /\ [](\A e \in CheckedSet :
          SourceMissing(e) =>
            Target(e) \notin DOMAIN written /\ LineOf(e) \notin Logged)
  /\ [][(pc = "check" /\ SourceMissing(entry)) =>
          /\ fs' = fs /\ stdout' = stdout /\ written' = written
          /\ error' = error
          /\ IF Position(entry) < Len(Entries)
             THEN pc' = "check" /\ <<list', idx'>> = Entries[Position(entry) + 1]
             ELSE pc' = "done"]_vars

\* C1 witness: a missing source was skipped and a later entry was converted.
C1_Witness ==
  \E e \in CheckedSet, l \in EntrySet :
    /\ SourceMissing(e)
    /\ Position(e) < Position(l)
    /\ Target(l) \in DOMAIN written
    /\ LineOf(l) \in Logged

\* C2: with exactly one placeholder in the template, the file written is the
\* template text before the placeholder, the rendered HTML unchanged, and the
\* template text after the placeholder.
C2_RenderedHtmlInsertedVerbatim ==
  (pc = "log" /\ Occurrences(template, Token) = 1) =>
     LET pos == IndexOf(template, Token)
     IN  fs[targetPath] =
           File(SubSeq(template, 1, pos - 1) \o html
                  \o SubSeq(template, pos + 1, Len(template)))

\* C3: when the template file is missing, a call of convertToHtml on an
\* existing source never gets past reading the template, that read ends the
\* call with an error, and the target is as it was when the call began.
C3_MissingTemplateFails ==
  /\ []((fs[TemplatePath].kind = "absent" /\ (InConversion \/ pc = "aborted")) =>
          /\ pc \in {"readSource", "render", "readTemplate", "aborted"}
          /\ fs[targetPath] = fsAtCall[targetPath])
  /\ [][(pc = "readTemplate" /\ fs[TemplatePath].kind = "absent") =>
          (pc' = "aborted" /\ error' # "none" /\ fs' = fs)]_vars

\* C3 witness: the call on an existing source has failed at the template read.
C3_Witness ==
  /\ pc = "aborted"
  /\ error = "readTemplate"
  /\ fs[TemplatePath].kind = "absent"
  /\ SourcePresent(entry)
  /\ fs[targetPath].kind = "file"

\* C4: a run that ends normally has written exactly the targets of the
\* entries whose source exists, and has printed exactly their progress lines,
\* one each, in the order of the manifest (guidelines, then process files).
C4_OutputsAndLinesFollowManifest ==
  pc = "done" =>
    /\ DOMAIN written = { Target(e) : e \in { x \in EntrySet : SourcePresent(x) } }
    /\ stdout = LinesOf(SelectSeq(Entries, SourcePresent))

\* C4 witness: a run over three entries, one of them missing, has ended with
\* two files written and two lines.
C4_Witness ==
  /\ pc = "done"
  /\ Cardinality({ e \in EntrySet : SourceMissing(e) }) = 1
  /\ Cardinality(DOMAIN written) = Len(Entries) - 1
  /\ Len(stdout) = Len(Entries) - 1
  /\ Len(stdout) >= 2

\* C5: when the first run has ended normally, or the second run has ended as
\* the first did (the same exception at the same entry), every output file
\* has after the second run the content it had after the first.
C5_SecondRunSameOutputs ==
  (second /\ pc \in {"done", "aborted"}
     /\ (firstEnd[1] = "none" \/ firstEnd = <<error, list, idx>>)) =>
     \A e \in EntrySet : fs[Target(e)] = fsAfterFirst[Target(e)]

\* C5 witness: the second run has ended after rewriting an output of the first.
C5_Witness ==
  /\ second
  /\ firstEnd[1] = "none"
  /\ pc = "done"
  /\ DOMAIN written # {}
  /\ \A p \in DOMAIN written : fsAfterFirst[p] = File(written[p])

\* C6: an exception ends the run where it is raised: the entries checked are
\* those up to the failing one, no later entry has a write or a line, the run
\* takes no further step (the only step is a new run), and every file written
\* before is on disk with the content written.
C6_ThrowAbortsRun ==
  /\ [](error # "none" =>
          /\ pc = "aborted"
          /\ checked = SubSeq(Entries, 1, Position(entry))
          /\ \A e \in EntrySet :
               Position(e) >= Position(entry) =>
                 Target(e) \notin DOMAIN written /\ LineOf(e) \notin Logged
          /\ \A p \in DOMAIN written : fs[p] = File(written[p]))
  /\ [][pc = "aborted" => (~second /\ second' /\ fs' = fs)]_vars

\* C6 witness: a run has aborted after an earlier write, before the last entry.
C6_Witness ==
  /\ pc = "aborted"
  /\ error # "none"
  /\ DOMAIN written # {}
  /\ Position(entry) < Len(Entries)

\* C7: when the run is about to write a target, the parent of the target path
\* is a directory.
C7_ParentDirectoryAtWrite ==
  pc = "write" => fs[Dirname(targetPath)].kind = "dir"

\* C8: a call of ensureDirectoryExists on a path an earlier call returned for
\* returns too and leaves the filesystem as it is; and a call on a path that
\* is a directory creates nothing and does not fail.
C8_EnsureDirectoryIdempotent ==
  [][(pc = "ensureDirectory"
        /\ (Dirname(targetPath) \in ensured
              \/ fs[Dirname(targetPath)].kind = "dir")) =>
       (pc' = "write" /\ error' = "none" /\ fs' = fs)]_vars

\* C8 witness: a second call on the path of an earlier call has returned: the
\* first call created the directory for an entry since written, and the run
\* is past the call for a later entry of the same directory.
C8_Witness ==
  /\ pc = "write"
  /\ \E e \in EntrySet :
       /\ Position(e) < Position(entry)
       /\ Dirname(Target(e)) = Dirname(targetPath)
       /\ Target(e) \in DOMAIN written
  /\ ~second
  /\ fsAfterFirst[Dirname(targetPath)].kind = "absent"

\* C9: ensureDirectoryExists on a path occupied by a regular file fails.
C9_OccupiedPathFails ==
  [][(pc = "ensureDirectory" /\ fs[Dirname(targetPath)].kind = "file") =>
       (pc' = "aborted" /\ error' = "ensureDirectory")]_vars

\* C10: at every moment of a run the lines printed are the progress lines of
\* the targets written in the run, one each, except that the line of the
\* target just written is still to come; so no line precedes its write and
\* an entry whose conversion threw has none.
C10_LineIffWritten ==
  LET settled == IF pc = "log" THEN DOMAIN written \ {targetPath}
                 ELSE DOMAIN written
  IN  /\ Logged = { LineOf(e) : e \in { x \in EntrySet : Target(x) \in settled } }
      /\ Len(stdout) = Cardinality(settled)
      /\ pc = "log" => targetPath \in DOMAIN written
      /\ pc = "aborted" => LineOf(entry) \notin Logged

\* C10 witness: a run has aborted with the line of an earlier write printed.
C10_Witness ==
  /\ pc = "aborted"
  /\ Len(stdout) >= 1
  /\ \E e \in EntrySet : Target(e) \in DOMAIN written /\ LineOf(e) \in Logged

\* C11: with two or more placeholders in the template, the file written is the
\* template with its first placeholder replaced by the rendered HTML and all
\* the text after it, the later placeholders included, unchanged.
C11_OnlyFirstPlaceholderReplaced ==
  (pc = "log" /\ Occurrences(template, Token) >= 2) =>
     LET pos == IndexOf(template, Token)
     IN  fs[targetPath] =
           File(SubSeq(template, 1, pos - 1) \o html
                  \o SubSeq(template, pos + 1, Len(template)))

\* C12: with no placeholder in the template file, a conversion that has
\* written its target has raised no error and the target holds the template
\* text, whatever the source.
C12_NoPlaceholderWritesTemplate ==
  (pc = "log" /\ Occurrences(fs[TemplatePath].data, Token) = 0) =>
     /\ error = "none"
     /\ fs[targetPath] = File(fs[TemplatePath].data)

\* C12 witness: a target has been written from a template without placeholder
\* and a source whose text holds a $-sequence.
C12_Witness ==
  /\ pc = "log"
  /\ Occurrences(fs[TemplatePath].data, Token) = 0
  /\ fs[TemplatePath].kind = "file"
  /\ IndexOf(html, <<"$", "&">>) > 0
  /\ fs[targetPath] = File(template)

\* C15: conversions follow one another: the entries checked so far are a head
\* of the manifest order (every guideline before the first process file),
\* and when the run is at an entry, every entry before it is finished: its
\* target written as it is on disk and its line printed if its source
\* exists, nothing written if not.
C15_ConversionsInSequence ==
  /\ checked = SubSeq(Entries, 1, Len(checked))
  /\ Len(checked) = IF pc = "check" THEN Position(entry) - 1 ELSE Position(entry)
  /\ \A a \in EntrySet :
       Position(a) < Position(entry) =>
         IF SourcePresent(a)
         THEN /\ Target(a) \in DOMAIN written
              /\ fs[Target(a)] = File(written[Target(a)])
              /\ LineOf(a) \in Logged
         ELSE Target(a) \notin DOMAIN written

\* C15 witness: the run is at the existence check of the first process file
\* with every guideline converted.
C15_Witness ==
  /\ pc = "check"
  /\ list = "processFiles"
  /\ \A k \in 1..Len(guidelines) :
       TargetPath("guidelines", k) \in DOMAIN written
  /\ Len(stdout) = Len(guidelines)

\* C17: a run ends normally exactly when no conversion threw, and by an
\* uncaught exception exactly when one did; skipped entries raise nothing.
C17_ExitOutcome ==
  /\ pc = "done" => error = "none"
  /\ pc = "aborted" <=> error # "none"

\* C17 witness: a run in which every source was missing has ended normally.
C17_Witness ==
  /\ pc = "done"
  /\ error = "none"
  /\ \A e \in EntrySet : SourceMissing(e)
  /\ Len(checked) = Len(Entries)

\* C18: after a write the target holds the template of the disk with the
\* substitution of the rendered source applied, and nothing else, whatever
\* it held before.
C18_WriteOverwrites ==
  pc = "log" =>
    fs[targetPath] =
      File(StringReplace(fs[TemplatePath].data, Token,
                         MarkedParse(fs[sourcePath].data)))

\* C18 witness: a target that held other content has been written.
C18_Witness ==
  /\ pc = "log"
  /\ fsAtCall[targetPath] = File(<<"stale">>)
  /\ fs[targetPath] # fsAtCall[targetPath]

\* C19: no entry is checked twice in a run, and when a run has aborted at
\* the write, every directory the conversion had to create is on disk.
C19_NoRetryNoRollback ==
  /\ \A i, j \in 1..Len(checked) : checked[i] = checked[j] => i = j
  /\ (pc = "aborted" /\ error = "write") =>
       \A d \in WithAncestors(Dirname(targetPath)) :
         fsAtCall[d].kind = "absent" => fs[d].kind = "dir"

\* C19 witness: the write failed after the conversion created docs and the
\* directory of the target.
C19_Witness ==
  /\ pc = "aborted"
  /\ error = "write"
  /\ fsAtCall[<<"docs">>].kind = "absent"
  /\ fs[<<"docs">>].kind = "dir"
  /\ fs[Dirname(targetPath)].kind = "dir"
  /\ fs[targetPath].kind = "absent"

\* C20: until the template is read, and when the run has aborted at the
\* source read, the rendering or the template read, the filesystem is as it
\* was when convertToHtml was called.
C20_EarlyFailureChangesNothing ==
  (pc \in {"readSource", "render", "readTemplate", "ensureDirectory"}
     \/ (pc = "aborted" /\ error \in {"readSource", "render", "readTemplate"})) =>
    fs = fsAtCall

\* C20 witness: the rendering threw with the directory of the target missing.
C20_Witness ==
  /\ pc = "aborted"
  /\ error = "render"
  /\ fs[Dirname(targetPath)].kind = "absent"
  /\ fs[targetPath].kind = "absent"

\* The filesystem the current run started on (the first run: the initial
\* one; the second: the one the first run left).
FsAtRunStart == fsAfterFirst

\* What failed in the run that has ended.
FaultOfRun == IF error = "none" THEN NoFault ELSE <<entry, error>>

WithHtmlExtension(name) == SubSeq(name, 1, Len(name) - 1) \o <<".html">>

C14_TemplateReadEachTime ==
  /\ pc = "log" =>
       fs[targetPath] = File(StringReplace(fs[TemplatePath].data, Token, html))
  /\ \A p \in DOMAIN written : fs[p] = File(written[p])
  /\ \A e \in EntrySet :
       Target(e) \notin DOMAIN written => fs[Target(e)] = FsAtRunStart[Target(e)]

\* C14 witness: after an edit of the template a target has been written from
\* the new text, while a target written before the edit, in this run or in
\* the first, holds a text the new template does not give.
C14_Witness ==
  /\ edited
  /\ pc = "log"
  /\ fs[targetPath] = File(StringReplace(fs[TemplatePath].data, Token, html))
  /\ \E e \in EntrySet :
       /\ Position(e) # Position(entry)
       /\ SourcePresent(e)
       /\ fs[Target(e)].kind = "file"
       /\ fs[Target(e)] # File(<<"stale">>)
       /\ fs[Target(e)] #
            File(StringReplace(fs[TemplatePath].data, Token,
                               MarkedParse(fs[Source(e)].data)))

\* C21: a source that passed the existence check and is gone when
\* convertToHtml reads it is not skipped: the read throws, the run ends by
\* that exception at that entry, with nothing written or printed for it.
C21_RemovedAfterCheckThrows ==
  /\ [][(pc = "readSource" /\ SourceMissing(entry)) =>
          /\ pc' = "aborted"
          /\ error' = "readSource"
          /\ entry' = entry
          /\ fs' = fs /\ stdout' = stdout /\ written' = written]_vars
  /\ []((pc = "readSource" /\ SourceMissing(entry)) =>
          /\ entry \in CheckedSet
          /\ fsAtCall[sourcePath].kind = "file"
          /\ Target(entry) \notin DOMAIN written)

\* C21 witness: the run has aborted at the read of a source that was there
\* at the check and removed since, with a later entry never reached.
C21_Witness ==
  /\ removed
  /\ pc = "aborted"
  /\ error = "readSource"
  /\ SourceMissing(entry)
  /\ fsAtCall[sourcePath].kind = "file"
  /\ entry \in CheckedSet
  /\ Position(entry) < Len(Entries)
  /\ Len(checked) = Position(entry)

\* C22: the target of an entry whose source is missing is, all through the
\* run and at its end, what it was when the run began: a file there stays,
\* with its content.
C22_StaleTargetKept ==
  \A e \in EntrySet :
    SourceMissing(e) =>
      /\ fs[Target(e)] = FsAtRunStart[Target(e)]
      /\ Target(e) \notin DOMAIN written

\* C22 witness: a run that converted another document has ended with the
\* file it found at the target of a skipped entry still there.
C22_Witness ==
  /\ pc = "done"
  /\ DOMAIN written # {}
  /\ \E e \in CheckedSet :
       /\ SourceMissing(e)
       /\ FsAtRunStart[Target(e)].kind = "file"
       /\ fs[Target(e)] = FsAtRunStart[Target(e)]

\* C23: a step of a run changes no path but the target of the entry under
\* conversion, which becomes a regular file at the write, and the missing
\* directories above it, which become directories; so every source and the
\* template are in every state of a run, its end included, what they were
\* when it began, and no path is deleted.
C23_OnlyOutputsChange ==
  /\ [](/\ DOMAIN fs = Paths
        /\ fs[TemplatePath] = FsAtRunStart[TemplatePath]
        /\ \A e \in EntrySet : fs[Source(e)] = FsAtRunStart[Source(e)])
  /\ [][\A p \in Paths :
          fs'[p] # fs[p] =>
            \/ /\ pc = "write"
               /\ p = targetPath
               /\ fs'[p].kind = "file"
            \/ /\ pc = "ensureDirectory"
               /\ p \in WithAncestors(Dirname(targetPath))
               /\ fs[p].kind = "absent"
               /\ fs'[p].kind = "dir"]_vars

\* C23 witness: a run that created the output directories and wrote a
\* target has aborted at a later entry whose source is on disk.
C23_Witness ==
  /\ pc = "aborted"
  /\ DOMAIN written # {}
  /\ FsAtRunStart[<<"docs">>].kind = "absent"
  /\ fs[<<"docs">>].kind = "dir"
  /\ fs[sourcePath].kind = "file"
  /\ fs[TemplatePath].kind = "file"

\* The target paths of the manifest as written: of all six guidelines and of
\* the process file.
ManifestTargets ==
  { TargetPathOf("guidelines", AllGuidelines[k]) : k \in 1..Len(AllGuidelines) }
    \cup { TargetPathOf("processFiles", processFiles[k]) : k \in 1..Len(processFiles) }

\* The target paths of the entries of the run.
EntryTargets == { Target(e) : e \in EntrySet }

\* C24: the names of the manifest as written (all six guidelines and the
\* process file) give target paths that differ two by two, and so do the
\* entries of the run; hence a run is never about to write a target it has
\* written already, it has written as many targets as it has converted
\* entries, and every file it wrote is on disk as written.
C24_TargetsDistinct ==
  /\ Cardinality(ManifestTargets) = Len(AllGuidelines) + Len(processFiles)
  /\ Cardinality(EntryTargets) = Len(Entries)
  /\ pc = "write" => targetPath \notin DOMAIN written
  /\ Cardinality(DOMAIN written) =
       Cardinality({ e \in EntrySet : Target(e) \in DOMAIN written })
  /\ Cardinality(DOMAIN written) =
       Len(stdout) + (IF pc = "log" THEN 1 ELSE 0)
  /\ \A p \in DOMAIN written : fs[p] = File(written[p])

\* C24 witness: a run has converted every entry, each into a file of its own.
C24_Witness ==
  /\ pc = "done"
  /\ Cardinality(DOMAIN written) = Len(Entries)
  /\ \A e \in EntrySet : fs[Target(e)] = File(written[Target(e)])
  /\ \E a, b \in EntrySet : written[Target(a)] # written[Target(b)]

\* C25: with a regular file where the parent directory of the target goes,
\* ensureDirectoryExists returns and creates nothing, the write that follows
\* throws and changes nothing, and the run has then aborted with no file at
\* the target and the occupying file as the run found it.
C25_OccupiedParentAbortsAtWrite ==
  /\ [][(pc = "ensureDirectory" /\ fs[Dirname(targetPath)].kind = "file") =>
          (pc' = "write" /\ error' = "none" /\ fs' = fs)]_vars
  /\ [][(pc = "write" /\ fs[Dirname(targetPath)].kind = "file") =>
          /\ pc' = "aborted"
          /\ error' = "write"
          /\ fs' = fs /\ written' = written /\ stdout' = stdout]_vars
  /\ []((InConversion /\ fs[Dirname(targetPath)].kind = "file") =>
          pc # "log")
  /\ []((pc = "aborted" /\ error = "write"
            /\ fs[Dirname(targetPath)].kind = "file") =>
          /\ fs[targetPath].kind = "absent"
          /\ targetPath \notin DOMAIN written
          /\ fs[Dirname(targetPath)] = FsAtRunStart[Dirname(targetPath)])

\* C25 witness: ensureDirectoryExists returned for a path held by a regular
\* file and the run has aborted at the write.
C25_Witness ==
  /\ pc = "aborted"
  /\ error = "write"
  /\ Dirname(targetPath) \in ensured
  /\ fs[Dirname(targetPath)] = File(<<"occupied">>)
  /\ fs[targetPath].kind = "absent"

Ended == pc \in {"done", "aborted"}

\* C26: every run ends, normally after the last entry or by the first
\* exception; until then the run goes through the entries in manifest order
\* (the guidelines, then the process file), one existence check for each
\* and never back to an earlier one; a run that has ended normally has
\* checked every entry once, and a run that has ended takes no further step.
C26_RunTerminates ==
  /\ [](~Ended => <>Ended)
  /\ [](/\ checked = SubSeq(Entries, 1, Len(checked))
        /\ Len(checked) <= Len(Entries)
        /\ pc = "done" => checked = Entries
        /\ pc = "aborted" => (error # "none" /\ checked[Len(checked)] = entry))
  /\ [][second' = second =>
          /\ ~Ended
          /\ Position(<<list', idx'>>) \in {Position(entry), Position(entry) + 1}
          /\ Len(checked') \in {Len(checked), Len(checked) + 1}]_vars

\* C26 witness: a run has ended normally with every entry checked once, one
\* of them converted and one skipped.
C26_Witness ==
  /\ pc = "done"
  /\ checked = Entries
  /\ \E e \in EntrySet : Target(e) \in DOMAIN written
  /\ \E e \in EntrySet : Target(e) \notin DOMAIN written

====
